---------------------------- MODULE Spec2Model ----------------------------
(***************************************************************************)
(* A model of utils.py: point and box prompt sampling, mask post-          *)
(* processing, the AverageMeter accumulator and the Generalized Energy     *)
(* Distance metric.                                                        *)
(*                                                                         *)
(* Each function of utils.py owns one variable, a record of its arguments, *)
(* its locals and its result.  Each function has its own specification     *)
(* (SpecClick, SpecBox, SpecPost, SpecMeter, SpecGed) whose Init draws the *)
(* arguments from bounded sets; the other functions' records stay Idle.    *)
(*                                                                         *)
(* Tensors are 0-indexed as in the source: a (H, W) map is a function on   *)
(* (0..H-1) \X (0..W-1).  Python lists are sequences (1-indexed).          *)
(* Real arithmetic is exact: a real is a fraction or, for the GED metric,  *)
(* a sum of fractions (see Num below); float64 rounding is not modelled.   *)
(***************************************************************************)
EXTENDS Integers, Sequences, FiniteSets

VARIABLES click, box, post, meter, ged

vars == <<click, box, post, meter, ged>>

Idle == [pc |-> "idle"]

(***************************************************************************)
(* Bounds of the model.                                                    *)
(***************************************************************************)
\* generate_click_prompt: B*H*W <= ClickMaxCells
ClickMaxCells == 4
\* random_box: B*H*W <= BoxMaxCells
BoxMaxCells == 4
\* post_process_masks: B*C*H*W <= PostMaxCells
PostMaxCells == 4
\* generalized_energy_distance: B*(M+N)*H*W <= GedMaxCells, M, N <= GedMaxMaps
GedMaxCells == 6
GedMaxMaps == 2
\* AverageMeter: updates are applied while count < MeterMaxCount
MeterMaxCount == 4

(***************************************************************************)
(* Tensor helpers.                                                         *)
(***************************************************************************)
Pixels(h, w) == (0 .. h - 1) \X (0 .. w - 1)

Maps(h, w, vals) == [Pixels(h, w) -> vals]

\* Row-major (C order) position of a pixel, and the pixel at a position.
FlatIndex(p, w) == p[1] * w + p[2]

PixelAt(f, w) == <<f \div w, f % w>>

Abs(n) == IF n < 0 THEN -n ELSE n

Min2(a, b) == IF a <= b THEN a ELSE b

Max2(a, b) == IF a >= b THEN a ELSE b

\* torch.nonzero of a 2-D map: the (row, col) of every non-zero entry, in
\* row-major order.
Nonzero(m, h, w) ==
    LET all == [f \in 1 .. h * w |-> PixelAt(f - 1, w)]
        keep(p) == m[p] # 0
    IN SelectSeq(all, keep)

(***************************************************************************)
(* generate_click_prompt(msk, num_points, pt_label)                        *)
(***************************************************************************)
ClickMaskVals == {0, 1, 2}

ClickPtLabels == {0, 1}

ClickNumPoints == {1, 2}

\* (B, H, W) of the msk argument; C is not read beyond channel 0.
ClickShapes ==
    {s \in (1 .. ClickMaxCells) \X (1 .. ClickMaxCells) \X (1 .. ClickMaxCells) :
        s[1] <= 2 /\ s[1] * s[2] * s[3] <= ClickMaxCells}

InitClick ==
    /\ box = Idle /\ post = Idle /\ meter = Idle /\ ged = Idle
    /\ \E s \in ClickShapes :
      \E m \in [1 .. s[1] -> Maps(s[2], s[3], ClickMaskVals)] :
        \E np \in ClickNumPoints, lab \in ClickPtLabels :
          click = [pc |-> "loop", msk |-> m, b |-> s[1], h |-> s[2], w |-> s[3],
                   num_points |-> np, pt_label |-> lab,
                   j |-> 0, n |-> 0,
                   pt_coords_list |-> <<>>, pt_labels_list |-> <<>>,
                   point_coords |-> <<>>, point_labels |-> <<>>]

\* The range torch.randint draws each of the two coordinates of a random
\* point from (line 32): [0, h) for both.
RandomPointRange(h, w) == (0 .. h - 1) \X (0 .. h - 1)

\* Mutant of SampledLabel: the supplied label instead of the mask's value.
SampledLabelSupplied(msk_s, random_index, pt_label) == pt_label

\* The label of a point sampled from the non-zero entries (line 38).
SampledLabel(msk_s, random_index, pt_label) == msk_s[random_index]

\* One iteration of the inner loop (lines 29-41) for batch element j.
ClickSample ==
    /\ click.pc = "loop"
    /\ click.j < click.b
    /\ LET msk_s == click.msk[click.j + 1]
           indices == Nonzero(msk_s, click.h, click.w)
           last == click.n + 1 = click.num_points
       IN \E random_index \in
                IF Len(indices) = 0
                THEN RandomPointRange(click.h, click.w)
                ELSE {indices[i] : i \in 1 .. Len(indices)} :
            LET pt_label_default ==
                    IF Len(indices) = 0
                    THEN click.pt_label
                    ELSE SampledLabel(msk_s, random_index, click.pt_label)
            IN click' = [click EXCEPT
                   !.pt_coords_list = Append(@, random_index),
                   !.pt_labels_list = Append(@, pt_label_default),
                   !.n = IF last THEN 0 ELSE @ + 1,
                   !.j = IF last THEN @ + 1 ELSE @]
    /\ UNCHANGED <<box, post, meter, ged>>

\* torch.stack(list).view(b, num_points, ...): entry (j, k) is element
\* j * num_points + k of the list (lines 43-44).
View(list, b, num_points) ==
    [jj \in 1 .. b |-> [kk \in 1 .. num_points |-> list[(jj - 1) * num_points + kk]]]

ClickReturn ==
    /\ click.pc = "loop"
    /\ click.j = click.b
    /\ click' = [click EXCEPT
           !.pc = "done",
           !.point_coords = View(click.pt_coords_list, click.b, click.num_points),
           !.point_labels = View(click.pt_labels_list, click.b, click.num_points)]
    /\ UNCHANGED <<box, post, meter, ged>>

NextClick == ClickSample \/ ClickReturn

SpecClick == InitClick /\ [][NextClick]_vars

(***************************************************************************)
(* Connected components: skimage.measure.label / regionprops (lines 67-68) *)
(* and scipy.ndimage.label (line 193).                                     *)
(***************************************************************************)
\* connectivity 1: the 4 edge neighbours; connectivity 2: the 8 neighbours.
Adjacent(p, q, connectivity) ==
    /\ p # q
    /\ Abs(p[1] - q[1]) <= 1
    /\ Abs(p[2] - q[2]) <= 1
    /\ Abs(p[1] - q[1]) + Abs(p[2] - q[2]) <= connectivity

RECURSIVE Grow(_, _)
Grow(S, E) ==
    LET T == S \cup {e[2] : e \in {d \in E : d[1] \in S}}
    IN IF T = S THEN S ELSE Grow(T, E)

\* The components of the pixels F under the edges E, as sets of pixels.
Components(F, E) == {Grow({p}, E) : p \in F}

FirstPixel(comp, w) ==
    CHOOSE f \in {FlatIndex(p, w) : p \in comp} :
        \A g \in {FlatIndex(p, w) : p \in comp} : f <= g

\* Labels are numbered in raster-scan order of each component's first pixel.
RECURSIVE InLabelOrder(_, _)
InLabelOrder(comps, w) ==
    IF comps = {} THEN <<>>
    ELSE LET c == CHOOSE x \in comps :
                      \A y \in comps : FirstPixel(x, w) <= FirstPixel(y, w)
         IN <<c>> \o InLabelOrder(comps \ {c}, w)

\* skimage.measure.label(single_mask): background 0, full connectivity (8
\* neighbours in 2-D), neighbours joined when they hold the same value.
SkimageLabel(img, h, w) ==
    LET F == {p \in Pixels(h, w) : img[p] # 0}
        E == {e \in F \X F : Adjacent(e[1], e[2], 2) /\ img[e[1]] = img[e[2]]}
    IN InLabelOrder(Components(F, E), w)

\* scipy.ndimage.label(mask): every non-zero entry is foreground, default
\* structure (4 edge neighbours in 2-D).
ScipyLabel(img, h, w) ==
    LET F == {p \in Pixels(h, w) : img[p] # 0}
        E == {e \in F \X F : Adjacent(e[1], e[2], 1)}
    IN InLabelOrder(Components(F, E), w)

SetMin(S) == CHOOSE a \in S : \A c \in S : a <= c

SetMax(S) == CHOOSE a \in S : \A c \in S : a >= c

\* region.bbox: (min_row, min_col, max_row, max_col), max exclusive.
Bbox(comp) ==
    <<SetMin({p[1] : p \in comp}), SetMin({p[2] : p \in comp}),
      SetMax({p[1] : p \in comp}) + 1, SetMax({p[2] : p \in comp}) + 1>>

\* regionprops(label_img): one region per label, in label order.
Regionprops(comps) ==
    [i \in 1 .. Len(comps) |-> [area |-> Cardinality(comps[i]), bbox |-> Bbox(comps[i])]]

RemoveAt(s, i) == SubSeq(s, 1, i - 1) \o SubSeq(s, i + 1, Len(s))

\* sorted(regions, key=lambda x: x.area, reverse=True): stable, so regions
\* of equal area keep their label order.
RECURSIVE SortedByArea(_)
SortedByArea(regions) ==
    IF regions = <<>> THEN <<>>
    ELSE LET i == CHOOSE a \in 1 .. Len(regions) :
                      /\ \A c \in 1 .. Len(regions) : regions[a].area >= regions[c].area
                      /\ \A c \in 1 .. a - 1 : regions[c].area < regions[a].area
         IN <<regions[i]>> \o SortedByArea(RemoveAt(regions, i))

(***************************************************************************)
(* random_box(mask, box_num, std, max_pixel)                               *)
(***************************************************************************)
BoxMaskVals == {0, 1}

\* (B, box_num) of a call.
BoxConfigs == {<<1, 1>>, <<1, 2>>, <<1, 3>>, <<2, 1>>}

\* std as a fraction <<numerator, denominator>>.
BoxStds == {<<1, 10>>, <<1, 2>>, <<-1, 10>>}

BoxMaxPixels == {0, 1, 2}

\* (H, W) of the masks of a batch of B.
BoxShapes(B) ==
    {s \in (1 .. BoxMaxCells) \X (1 .. BoxMaxCells) : B * s[1] * s[2] <= BoxMaxCells}

InitBox ==
    /\ click = Idle /\ post = Idle /\ meter = Idle /\ ged = Idle
    /\ \E cfg \in BoxConfigs, sd \in BoxStds, mp \in BoxMaxPixels :
        \E s \in BoxShapes(cfg[1]) :
         \E m \in [1 .. cfg[1] -> Maps(s[1], s[2], BoxMaskVals)] :
          box = [pc |-> "regions", mask |-> m, B |-> cfg[1], H |-> s[1], W |-> s[2],
                 box_num |-> cfg[2], std |-> sd, max_pixel |-> mp,
                 i |-> 0, regions |-> <<>>, boxes |-> <<>>,
                 max_noise |-> 0, noise_x |-> 0, noise_y |-> 0,
                 batch_noise_boxes |-> <<>>, noise_boxes |-> <<>>, result |-> <<>>]

\* Mutant of SelectBoxes: truncation without the sort by area.
SelectBoxesUnsorted(regions, box_num) ==
    LET boxes == [k \in 1 .. Len(regions) |-> regions[k].bbox]
        n == Len(boxes)
    IN IF n >= box_num
       THEN SubSeq(boxes, 1, box_num)
       ELSE boxes \o [d \in 1 .. box_num - n |-> boxes[((d - 1) % n) + 1]]

\* The boxes kept for one batch element that has at least one region
\* (lines 70-82).
SelectBoxes(regions, box_num) ==
    LET boxes == [k \in 1 .. Len(regions) |-> regions[k].bbox]
        n == Len(boxes)
    IN IF n >= box_num
       THEN LET sorted_regions == SubSeq(SortedByArea(regions), 1, box_num)
            IN [k \in 1 .. box_num |-> sorted_regions[k].bbox]
       ELSE boxes \o [d \in 1 .. box_num - n |-> boxes[((d - 1) % n) + 1]]

\* Lines 64-83 for batch element i: label, regionprops, box selection.
BoxRegions ==
    /\ box.pc = "regions"
    /\ box.i < box.B
    /\ LET single_mask == box.mask[box.i + 1]
           label_img == SkimageLabel(single_mask, box.H, box.W)
           regions == Regionprops(label_img)
       IN IF Len(regions) = 0
          THEN box' = [box EXCEPT
                   !.regions = regions,
                   !.boxes = <<>>,
                   !.noise_boxes = Append(@, [k \in 1 .. box.box_num |-> <<0, 0, 0, 0>>]),
                   !.i = @ + 1]
          ELSE box' = [box EXCEPT
                   !.pc = "noise",
                   !.regions = regions,
                   !.boxes = SelectBoxes(regions, box.box_num),
                   !.batch_noise_boxes = <<>>]
    /\ UNCHANGED <<click, post, meter, ged>>

\* int(x) of the fraction n/d, d > 0: truncation toward zero.
Trunc(n, d) == IF n >= 0 THEN n \div d ELSE -((-n) \div d)

\* Lines 87-89: the noise magnitude of a box (y0, x0, y1, x1).
MaxNoise(b, std, max_pixel) ==
    LET width == Abs(b[4] - b[2])
        height == Abs(b[3] - b[1])
        \* int(noise_std * 5) with noise_std = min(width, height) * std
        scaled == Trunc(Min2(width, height) * std[1] * 5, std[2])
    IN Max2(1, Min2(max_pixel, scaled))

\* Mutant of NoiseRange: high inclusive.
NoiseRangeClosed(max_noise) == (-max_noise) .. max_noise

\* np.random.randint(-max_noise, max_noise): low inclusive, high exclusive.
NoiseRange(max_noise) == (-max_noise) .. (max_noise - 1)

\* Mutant of NoisyBox: the second corner shifted by the other axis' noise.
NoisyBoxSwapped(b, noise_x, noise_y) ==
    <<b[2] + noise_x, b[1] + noise_y, b[4] + noise_y, b[3] + noise_x>>

\* Lines 92-94: the output box (x0, y0, x1, y1) of a box (y0, x0, y1, x1).
NoisyBox(b, noise_x, noise_y) ==
    <<b[2] + noise_x, b[1] + noise_y, b[4] + noise_x, b[3] + noise_y>>

\* One iteration of the loop of lines 85-94.
BoxNoise ==
    /\ box.pc = "noise"
    /\ Len(box.batch_noise_boxes) < Len(box.boxes)
    /\ LET b == box.boxes[Len(box.batch_noise_boxes) + 1]
           max_noise == MaxNoise(b, box.std, box.max_pixel)
       IN \E noise_x \in NoiseRange(max_noise), noise_y \in NoiseRange(max_noise) :
            box' = [box EXCEPT
                !.max_noise = max_noise,
                !.noise_x = noise_x,
                !.noise_y = noise_y,
                !.batch_noise_boxes = Append(@, NoisyBox(b, noise_x, noise_y))]
    /\ UNCHANGED <<click, post, meter, ged>>

\* Line 96, then the next batch element.
BoxAppend ==
    /\ box.pc = "noise"
    /\ Len(box.batch_noise_boxes) = Len(box.boxes)
    /\ box' = [box EXCEPT
           !.pc = "regions",
           !.noise_boxes = Append(@, box.batch_noise_boxes),
           !.i = @ + 1]
    /\ UNCHANGED <<click, post, meter, ged>>

\* Line 98: torch.as_tensor(noise_boxes, dtype=torch.float); the small
\* integers of the model convert to float exactly.
BoxReturn ==
    /\ box.pc = "regions"
    /\ box.i = box.B
    /\ box' = [box EXCEPT !.pc = "done", !.result = box.noise_boxes]
    /\ UNCHANGED <<click, post, meter, ged>>

NextBox == BoxRegions \/ BoxNoise \/ BoxAppend \/ BoxReturn

SpecBox == InitBox /\ [][NextBox]_vars

(***************************************************************************)
(* post_process_masks(masks, threshold, min_area)                          *)
(***************************************************************************)
\* Probabilities and the threshold are in tenths.
PostProbVals == {2, 5, 8}

PostThresholds == {0, 5}

PostMinAreas == {1, 2, 3}

\* (B, C, H, W) of masks.
PostShapes ==
    {s \in (1 .. 2) \X (1 .. 2) \X (1 .. PostMaxCells) \X (1 .. PostMaxCells) :
        s[1] * s[2] * s[3] * s[4] <= PostMaxCells}

InitPost ==
    /\ click = Idle /\ box = Idle /\ meter = Idle /\ ged = Idle
    /\ \E s \in PostShapes, th \in PostThresholds, ma \in PostMinAreas :
        \E m \in [1 .. s[1] -> [1 .. s[2] -> Maps(s[3], s[4], PostProbVals)]] :
          post = [pc |-> "start", masks |-> m, B |-> s[1], C |-> s[2],
                  H |-> s[3], W |-> s[4], threshold |-> th, min_area |-> ma,
                  i |-> 0, binary_masks |-> <<>>, result |-> <<>>]

\* (masks > threshold).float() on one entry (line 188).
Binarize(v, threshold) == IF v > threshold THEN 1 ELSE 0

\* Line 188.
PostThreshold ==
    /\ post.pc = "start"
    /\ post' = [post EXCEPT
           !.pc = "loop",
           !.binary_masks =
               [b \in 1 .. post.B |-> [c \in 1 .. post.C |->
                   [p \in Pixels(post.H, post.W) |->
                       Binarize(post.masks[b][c][p], post.threshold)]]]]
    /\ UNCHANGED <<click, box, meter, ged>>

\* Mutant of RemoveSmall: a component of exactly min_area pixels is removed.
RemoveSmallInclusive(mask, labeled, min_area) ==
    [p \in DOMAIN mask |->
        IF \E j \in 1 .. Len(labeled) :
               p \in labeled[j] /\ Cardinality(labeled[j]) <= min_area
        THEN 0 ELSE mask[p]]

\* Lines 195-198: every component with fewer than min_area pixels is zeroed.
RemoveSmall(mask, labeled, min_area) ==
    [p \in DOMAIN mask |->
        IF \E j \in 1 .. Len(labeled) :
               p \in labeled[j] /\ Cardinality(labeled[j]) < min_area
        THEN 0 ELSE mask[p]]

\* Lines 190-200 for batch element i: channel 0 is labelled and cleaned.
PostClean ==
    /\ post.pc = "loop"
    /\ post.i < post.B
    /\ LET mask == post.binary_masks[post.i + 1][1]
           labeled == ScipyLabel(mask, post.H, post.W)
       IN post' = [post EXCEPT
              !.binary_masks[post.i + 1][1] = RemoveSmall(mask, labeled, post.min_area),
              !.i = @ + 1]
    /\ UNCHANGED <<click, box, meter, ged>>

\* Line 202.
PostReturn ==
    /\ post.pc = "loop"
    /\ post.i = post.B
    /\ post' = [post EXCEPT !.pc = "done", !.result = post.binary_masks]
    /\ UNCHANGED <<click, box, meter, ged>>

NextPost == PostThreshold \/ PostClean \/ PostReturn

SpecPost == InitPost /\ [][NextPost]_vars

(***************************************************************************)
(* AverageMeter                                                            *)
(***************************************************************************)
MeterVals == {-1, 0, 2, 3}

MeterWeights == {1, 2}

RECURSIVE Gcd(_, _)
Gcd(a, b) == IF b = 0 THEN Abs(a) ELSE Gcd(b, a % b)

\* The quotient n / d (d > 0) as a fraction in lowest terms.
Frac(n, d) == LET g == Gcd(Abs(n), d) IN <<n \div g, d \div g>>

\* Lines 209-213.  calls is the history of update(val, n) calls since the
\* last reset, kept for the properties; the object itself does not hold it.
Reset(self) ==
    [self EXCEPT !.val = 0, !.avg = <<0, 1>>, !.sum = 0, !.count = 0, !.calls = <<>>]

\* Mutant of Update: the weight is left out of the running sum.
UpdateUnweighted(self, val, n) ==
    [self EXCEPT
        !.val = val,
        !.sum = self.sum + val,
        !.count = self.count + n,
        !.avg = Frac(self.sum + val, self.count + n),
        !.calls = Append(@, <<val, n>>)]

\* Lines 215-219.
Update(self, val, n) ==
    [self EXCEPT
        !.val = val,
        !.sum = self.sum + val * n,
        !.count = self.count + n,
        !.avg = Frac(self.sum + val * n, self.count + n),
        !.calls = Append(@, <<val, n>>)]

\* __init__ (lines 206-207) calls reset().
InitMeter ==
    /\ click = Idle /\ box = Idle /\ post = Idle /\ ged = Idle
    /\ meter = Reset([pc |-> "live", val |-> 0, avg |-> <<0, 1>>, sum |-> 0,
                      count |-> 0, calls |-> <<>>])

MeterReset ==
    /\ meter.pc = "live"
    /\ meter' = Reset(meter)
    /\ UNCHANGED <<click, box, post, ged>>

MeterUpdate ==
    /\ meter.pc = "live"
    /\ \E val \in MeterVals, n \in MeterWeights :
        /\ meter.count + n <= MeterMaxCount
        /\ meter' = Update(meter, val, n)
    /\ UNCHANGED <<click, box, post, ged>>

NextMeter == MeterReset \/ MeterUpdate

SpecMeter == InitMeter /\ [][NextMeter]_vars

(***************************************************************************)
(* Exact arithmetic for the GED metric.                                    *)
(*                                                                         *)
(* Every real the metric computes is a rational combination of the         *)
(* quotients i / (u + smooth), i and u pixel counts.  A Num is             *)
(*   [q |-> q, t |-> [u \in Slots |-> <<a, b>>]],  q > 0,                  *)
(* and stands for  (1/q) * SUM_u (a_u + b_u * smooth) / (u + smooth).      *)
(* Slot 0 holds the plain rationals: (b * smooth) / (0 + smooth) = b.      *)
(* A pixel count is at most GedMaxCells \div 2 (a call has at least two    *)
(* maps).  Stored Nums are in lowest terms, so equal Nums are equal reals. *)
(***************************************************************************)
Slots == 0 .. (GedMaxCells \div 2)

\* The gcd of g and the entries of the slots u and above.
RECURSIVE GcdFrom(_, _, _)
GcdFrom(g, t, u) ==
    IF u \notin Slots THEN g
    ELSE GcdFrom(Gcd(Gcd(g, Abs(t[u][1])), Abs(t[u][2])), t, u + 1)

\* The Num in lowest terms.
Normal(x) ==
    LET g == GcdFrom(x.q, x.t, 0)
    IN [q |-> x.q \div g,
        t |-> [u \in Slots |-> <<x.t[u][1] \div g, x.t[u][2] \div g>>]]

Rational(n, d) ==
    Normal([q |-> d, t |-> [u \in Slots |-> IF u = 0 THEN <<0, n>> ELSE <<0, 0>>]])

NumZero == Rational(0, 1)

NumOne == Rational(1, 1)

\* Sums, multiples and quotients are left unreduced; Normal reduces them
\* where a value is stored or compared.
NumAdd(x, y) ==
    LET q == (x.q * y.q) \div Gcd(x.q, y.q)
        kx == q \div x.q
        ky == q \div y.q
    IN [q |-> q,
        t |-> [u \in Slots |-> <<kx * x.t[u][1] + ky * y.t[u][1],
                                 kx * x.t[u][2] + ky * y.t[u][2]>>]]

NumScale(k, x) ==
    [q |-> x.q, t |-> [u \in Slots |-> <<k * x.t[u][1], k * x.t[u][2]>>]]

NumSub(x, y) == NumAdd(x, NumScale(-1, y))

NumDiv(x, k) == [q |-> x.q * k, t |-> x.t]

RECURSIVE NumSum(_)
NumSum(s) == IF s = <<>> THEN NumZero ELSE NumAdd(Head(s), NumSum(Tail(s)))

\* np.mean of a non-empty list of reals.
NumMean(s) == NumDiv(NumSum(s), Len(s))

\* The rows of a matrix one after the other (np.mean of a matrix reads all
\* its entries).
RECURSIVE Flatten(_)
Flatten(rows) == IF rows = <<>> THEN <<>> ELSE Head(rows) \o Flatten(Tail(rows))

(***************************************************************************)
(* iou, distance, calc_generalised_energy_distance and                     *)
(* generalized_energy_distance                                             *)
(***************************************************************************)
\* smooth = 1e-8 (line 223), as <<0, 1>>: 0 + 1 * smooth.  A denominator
\* <<u, e>> stands for u + e * smooth.
Smooth == <<0, 1>>

\* np.isnan of the float quotient inter / den: only 0 / 0 is NaN.
IsNan(inter, den) == inter = 0 /\ den = <<0, 0>>

\* The quotient inter / den of line 224 when it is a real (den # 0).
Quotient(inter, den) ==
    IF den[2] = 0
    THEN Rational(inter, den[1])
    ELSE Normal([q |-> den[2],
                 t |-> [u \in Slots |-> IF u = den[1] THEN <<inter, 0>> ELSE <<0, 0>>]])

\* iou (lines 222-226) for one pair of one-hot maps and one class: x and y
\* are boolean (pixels, classes) arrays, the sums run over the pixel axis.
Iou(x, y, c) ==
    LET inter == Cardinality({p \in DOMAIN x : x[p][c] /\ y[p][c]})
        union == Cardinality({p \in DOMAIN x : x[p][c] \/ y[p][c]})
        den == <<union + Smooth[1], Smooth[2]>>
    IN IF IsNan(inter, den) THEN NumOne ELSE Quotient(inter, den)

\* iou(x[:, None], y[None, :], axis=-2): the (M, N, classes) array of line
\* 233.
PerClassIouBroadcast(x, y, num_classes) ==
    [m \in 1 .. Len(x) |-> [n \in 1 .. Len(y) |->
        [c \in 0 .. num_classes - 1 |-> Iou(x[m], y[n], c)]]]

\* Mutant of PerClassIouFallback: the loop runs over y instead of x.
PerClassIouFallbackOverY(x, y, num_classes) ==
    Flatten([n \in 1 .. Len(y) |-> PerClassIouBroadcast(<<y[n]>>, x, num_classes)])

\* Lines 235-239: one (1, N, classes) array per map of x, concatenated
\* along the first axis.
PerClassIouFallback(x, y, num_classes) ==
    Flatten([m \in 1 .. Len(x) |-> PerClassIouBroadcast(<<x[m]>>, y, num_classes)])

\* distance (lines 229-240); memory_error says whether line 233 raised
\* MemoryError.  Line 240 averages the classes 1.. and subtracts from 1.
Distance(x, y, num_classes, memory_error) ==
    LET per_class_iou ==
            IF memory_error
            THEN PerClassIouFallback(x, y, num_classes)
            ELSE PerClassIouBroadcast(x, y, num_classes)
    IN [m \in 1 .. Len(per_class_iou) |-> [n \in 1 .. Len(per_class_iou[m]) |->
           NumSub(NumOne,
                  NumMean([c \in 1 .. num_classes - 1 |-> per_class_iou[m][n][c]]))]]

\* Lines 248-256: reshape to (len, H*W) in row-major order, cast to int,
\* index the identity matrix, cast to bool.
OneHot(dist, h, w, num_classes) ==
    [m \in 1 .. Len(dist) |-> [f \in 1 .. h * w |->
        [c \in 0 .. num_classes - 1 |-> c = dist[m][PixelAt(f - 1, w)]]]]

\* np.mean(distance(x, y)) of lines 258-260, x and y the one-hot
\* encodings of two collections of maps.
MeanDistance(dist_x, dist_y, h, w, num_classes, memory_error) ==
    Normal(NumMean(Flatten(Distance(OneHot(dist_x, h, w, num_classes),
                                    OneHot(dist_y, h, w, num_classes),
                                    num_classes, memory_error))))

\* Mutant of GedValue: the factor 2.0 is missing.
GedValueUnscaled(cross, d_0, d_1) == Normal(NumSub(NumSub(cross, d_0), d_1))

\* Line 280: ged_i = 2.0 * cross - d_0 - d_1.
GedValue(cross, d_0, d_1) ==
    Normal(NumSub(NumSub(NumScale(2, cross), d_0), d_1))

\* Predictions and the threshold are in tenths.
GedPredVals == {5, 8}

GedThresholds == {5}

GedNumClasses == {2, 3}

\* (B, M, N, H, W) of labels (B, M, H, W) and preds (B, N, H, W).
GedShapes ==
    {s \in (1 .. 2) \X (1 .. GedMaxMaps) \X (1 .. GedMaxMaps)
            \X (1 .. GedMaxCells) \X (1 .. GedMaxCells) :
        s[1] * (s[2] + s[3]) * s[4] * s[5] <= GedMaxCells}

InitGed ==
    /\ click = Idle /\ box = Idle /\ post = Idle /\ meter = Idle
    /\ \E s \in GedShapes, nc \in GedNumClasses, th \in GedThresholds :
        \E l \in [1 .. s[1] -> [1 .. s[2] -> Maps(s[4], s[5], 0 .. nc - 1)]],
           p \in [1 .. s[1] -> [1 .. s[3] -> Maps(s[4], s[5], GedPredVals)]] :
          ged = [pc |-> "start", labels |-> l, preds |-> p, thresh |-> th,
                 num_classes |-> nc, B |-> s[1], M |-> s[2], N |-> s[3],
                 H |-> s[4], W |-> s[5],
                 bin_preds |-> <<>>, i |-> 0,
                 memory_error |-> FALSE,
                 cross |-> NumZero, d_0 |-> NumZero, d_1 |-> NumZero,
                 batch_ged |-> <<>>, result |-> NumZero]

\* (preds > thresh).float() on one entry (line 271).
BinPred(v, thresh) == IF v > thresh THEN 1 ELSE 0

\* Line 271.
GedThreshold ==
    /\ ged.pc = "start"
    /\ ged' = [ged EXCEPT
           !.pc = "loop",
           !.bin_preds =
               [b \in 1 .. ged.B |-> [n \in 1 .. ged.N |->
                   [p \in Pixels(ged.H, ged.W) |->
                       BinPred(ged.preds[b][n][p], ged.thresh)]]]]
    /\ UNCHANGED <<click, box, post, meter>>

\* Line 258 for batch element i (pc "loop": the loop head of line 274).
GedCross ==
    /\ ged.pc = "loop"
    /\ ged.i < ged.B
    /\ \E memory_error \in BOOLEAN :
        ged' = [ged EXCEPT
            !.pc = "distance_0",
            !.memory_error = memory_error,
            !.cross = MeanDistance(ged.labels[ged.i + 1], ged.bin_preds[ged.i + 1],
                                   ged.H, ged.W, ged.num_classes, memory_error)]
    /\ UNCHANGED <<click, box, post, meter>>

\* Line 259.
GedDistance0 ==
    /\ ged.pc = "distance_0"
    /\ \E memory_error \in BOOLEAN :
        ged' = [ged EXCEPT
            !.pc = "distance_1",
            !.memory_error = memory_error,
            !.d_0 = MeanDistance(ged.labels[ged.i + 1], ged.labels[ged.i + 1],
                                 ged.H, ged.W, ged.num_classes, memory_error)]
    /\ UNCHANGED <<click, box, post, meter>>

\* Lines 260-262 and 280-281.
GedDistance1 ==
    /\ ged.pc = "distance_1"
    /\ \E memory_error \in BOOLEAN :
        LET d_1 == MeanDistance(ged.bin_preds[ged.i + 1], ged.bin_preds[ged.i + 1],
                                ged.H, ged.W, ged.num_classes, memory_error)
        IN ged' = [ged EXCEPT
               !.pc = "loop",
               !.memory_error = memory_error,
               !.d_1 = d_1,
               !.batch_ged = Append(@, GedValue(ged.cross, ged.d_0, d_1)),
               !.i = @ + 1]
    /\ UNCHANGED <<click, box, post, meter>>

\* Line 283: float(np.mean(batch_ged)).
GedReturn ==
    /\ ged.pc = "loop"
    /\ ged.i = ged.B
    /\ ged' = [ged EXCEPT !.pc = "done", !.result = Normal(NumMean(ged.batch_ged))]
    /\ UNCHANGED <<click, box, post, meter>>

NextGed == GedThreshold \/ GedCross \/ GedDistance0 \/ GedDistance1 \/ GedReturn

SpecGed == InitGed /\ [][NextGed]_vars

(***************************************************************************)
(* Properties of generate_click_prompt.                                    *)
(***************************************************************************)
AllZero(m) == \A p \in DOMAIN m : m[p] = 0

\* C2: for an all-zero mask, every returned point has row in [0, H) and
\* column in [0, W), and its label is the supplied pt_label.
C2_AllZeroPointInBounds ==
    click.pc = "done" =>
        \A jj \in 1 .. click.b :
            AllZero(click.msk[jj]) =>
                \A kk \in 1 .. click.num_points :
                    /\ click.point_coords[jj][kk][1] \in 0 .. click.h - 1
                    /\ click.point_coords[jj][kk][2] \in 0 .. click.w - 1
                    /\ click.point_labels[jj][kk] = click.pt_label

\* C9: for a batch element with a non-zero pixel, every returned point is
\* the (row, col) of a non-zero pixel of that element and its label is the
\* mask's value there; the outputs have shapes (B, num_points, 2) and
\* (B, num_points).
C9_ForegroundPointOnMask ==
    click.pc = "done" =>
        /\ DOMAIN click.point_coords = 1 .. click.b
        /\ DOMAIN click.point_labels = 1 .. click.b
        /\ \A jj \in 1 .. click.b :
            /\ DOMAIN click.point_coords[jj] = 1 .. click.num_points
            /\ DOMAIN click.point_labels[jj] = 1 .. click.num_points
            /\ \A kk \in 1 .. click.num_points : Len(click.point_coords[jj][kk]) = 2
            /\ ~AllZero(click.msk[jj]) =>
                 \A kk \in 1 .. click.num_points :
                    LET pt == click.point_coords[jj][kk]
                    IN /\ pt \in Pixels(click.h, click.w)
                       /\ click.msk[jj][pt] # 0
                       /\ click.point_labels[jj][kk] = click.msk[jj][pt]

\* A finished call on a batch of two whose second element has a non-zero
\* pixel, with a returned label that differs from pt_label.
C9_Witness ==
    /\ click.pc = "done"
    /\ click.b = 2
    /\ click.num_points = 2
    /\ ~AllZero(click.msk[2])
    /\ click.point_labels[2][2] # click.pt_label

(***************************************************************************)
(* Properties of random_box.                                               *)
(***************************************************************************)
Perms(n) == {f \in [1 .. n -> 1 .. n] : \A a, c \in 1 .. n : a # c => f[a] # f[c]}

\* f orders the regions by descending area.
AreaDescending(regions, f) ==
    \A a, c \in 1 .. Len(regions) : a < c => regions[f[a]].area >= regions[f[c]].area

Cyclic(k, n) == ((k - 1) % n) + 1

\* Every batch element done so far holds box_num boxes, all (0, 0, 0, 0)
\* when its mask has no component.
BoxCounts ==
    \A e \in 1 .. Len(box.noise_boxes) :
        /\ Len(box.noise_boxes[e]) = box.box_num
        /\ AllZero(box.mask[e]) =>
             \A k \in 1 .. box.box_num : box.noise_boxes[e][k] = <<0, 0, 0, 0>>

\* C5 as stated: the boxes selected for a batch element are the components'
\* bounding boxes in descending order of area, truncated to box_num or
\* cyclically repeated up to box_num; box_num boxes per element, all zero
\* without a component.
C5_BoxesByAreaThenCycled ==
    /\ box.pc \in {"regions", "noise", "done"} => BoxCounts
    /\ box.pc = "done" => Len(box.result) = box.B
    /\ box.pc = "noise" =>
        LET n == Len(box.regions)
        IN /\ Len(box.boxes) = box.box_num
           /\ \E f \in Perms(n) :
                /\ AreaDescending(box.regions, f)
                /\ \A k \in 1 .. box.box_num :
                     box.boxes[k] = box.regions[f[Cyclic(k, n)]].bbox

\* C5 amended: descending order of area when there are at least box_num
\* components; label order (raster order of the components' first pixels),
\* cyclically repeated, when there are fewer.
C5_BoxesByAreaOrCycledInLabelOrder ==
    /\ box.pc \in {"regions", "noise", "done"} => BoxCounts
    /\ box.pc = "done" => Len(box.result) = box.B
    /\ box.pc = "noise" =>
        LET n == Len(box.regions)
        IN /\ Len(box.boxes) = box.box_num
           /\ n >= box.box_num =>
                \E f \in Perms(n) :
                    /\ AreaDescending(box.regions, f)
                    /\ \A k \in 1 .. box.box_num :
                         box.boxes[k] = box.regions[f[k]].bbox
           /\ n < box.box_num =>
                \A k \in 1 .. box.box_num :
                    box.boxes[k] = box.regions[Cyclic(k, n)].bbox

\* Two components, the first in label order the smaller, and three boxes
\* asked for.
C5_Witness ==
    /\ box.pc = "noise"
    /\ Len(box.regions) = 2
    /\ box.box_num = 3
    /\ box.regions[1].area < box.regions[2].area
    /\ Len(box.batch_noise_boxes) = 3

\* C7: a perturbed box keeps the width and height of the unperturbed box
\* (both corners move by the same offset), so it is neither collapsed nor
\* inverted.
C7_NoisePreservesExtent ==
    box.pc = "noise" =>
        \A k \in 1 .. Len(box.batch_noise_boxes) :
            LET u == box.boxes[k]
                o == box.batch_noise_boxes[k]
            IN /\ o[3] - o[1] = u[4] - u[2]
               /\ o[4] - o[2] = u[3] - u[1]
               /\ o[1] - u[2] = o[3] - u[4]
               /\ o[2] - u[1] = o[4] - u[3]
               /\ o[3] > o[1]
               /\ o[4] > o[2]

\* A box perturbed by two different non-zero offsets.
C7_Witness ==
    /\ box.pc = "noise"
    /\ Len(box.batch_noise_boxes) >= 1
    /\ box.noise_x # 0
    /\ box.noise_y # 0
    /\ box.noise_x # box.noise_y

\* C10 as stated: 1 <= m <= max_pixel and -m < noise < m for both offsets.
C10_NoiseInOpenInterval ==
    (box.pc = "noise" /\ Len(box.batch_noise_boxes) >= 1) =>
        /\ 1 <= box.max_noise
        /\ box.max_noise <= box.max_pixel
        /\ -box.max_noise < box.noise_x /\ box.noise_x < box.max_noise
        /\ -box.max_noise < box.noise_y /\ box.noise_y < box.max_noise

\* C10 amended: 1 <= m <= max(1, max_pixel) and -m <= noise < m.
C10_NoiseInHalfOpenInterval ==
    (box.pc = "noise" /\ Len(box.batch_noise_boxes) >= 1) =>
        /\ 1 <= box.max_noise
        /\ box.max_noise <= Max2(1, box.max_pixel)
        /\ -box.max_noise <= box.noise_x /\ box.noise_x < box.max_noise
        /\ -box.max_noise <= box.noise_y /\ box.noise_y < box.max_noise

\* A draw at the low end with a magnitude above 1.
C10_Witness ==
    /\ box.pc = "noise"
    /\ Len(box.batch_noise_boxes) >= 1
    /\ box.max_noise = 2
    /\ box.noise_x = -2
    /\ box.noise_y = 1

(***************************************************************************)
(* Properties of post_process_masks.                                       *)
(***************************************************************************)
\* The thresholded channel 0 of batch element b.
Thresholded(b) ==
    [p \in Pixels(post.H, post.W) |-> IF post.masks[b][1][p] > post.threshold THEN 1 ELSE 0]

\* C6: the output is a binary mask of the input's shape; in channel 0 every
\* component of the thresholded mask with fewer than min_area pixels is all
\* zero and every other component is unchanged; a mask without foreground
\* is returned unchanged.
C6_SmallComponentsRemoved ==
    post.pc = "done" =>
        /\ DOMAIN post.result = DOMAIN post.masks
        /\ \A b \in 1 .. post.B :
            /\ DOMAIN post.result[b] = DOMAIN post.masks[b]
            /\ \A c \in 1 .. post.C :
                /\ DOMAIN post.result[b][c] = DOMAIN post.masks[b][c]
                /\ \A p \in Pixels(post.H, post.W) : post.result[b][c][p] \in {0, 1}
            /\ LET t == Thresholded(b)
                   comps == ScipyLabel(t, post.H, post.W)
               IN /\ \A j \in 1 .. Len(comps) :
                        IF Cardinality(comps[j]) < post.min_area
                        THEN \A p \in comps[j] : post.result[b][1][p] = 0
                        ELSE \A p \in comps[j] : post.result[b][1][p] = t[p]
                  /\ AllZero(t) => post.result[b][1] = t

\* One component below min_area beside one of exactly min_area pixels.
C6_Witness ==
    /\ post.pc = "done"
    /\ LET comps == ScipyLabel(Thresholded(1), post.H, post.W)
       IN /\ Len(comps) = 2
          /\ Cardinality(comps[1]) < post.min_area
          /\ Cardinality(comps[2]) = post.min_area
          /\ \E p \in comps[2] : post.result[1][1][p] = 1

(***************************************************************************)
(* Properties of AverageMeter.                                             *)
(***************************************************************************)
RECURSIVE SumWeights(_)
SumWeights(calls) ==
    IF calls = <<>> THEN 0 ELSE Head(calls)[2] + SumWeights(Tail(calls))

RECURSIVE SumWeighted(_)
SumWeighted(calls) ==
    IF calls = <<>> THEN 0 ELSE Head(calls)[1] * Head(calls)[2] + SumWeighted(Tail(calls))

\* C8: count is the sum of the n and sum the sum of val*n since the last
\* reset, avg * count = sum, val is the last update's val; all four are 0
\* right after reset or construction.
C8_MeterAccumulates ==
    /\ meter.count = SumWeights(meter.calls)
    /\ meter.sum = SumWeighted(meter.calls)
    /\ meter.avg[1] * meter.count = meter.sum * meter.avg[2]
    /\ meter.calls # <<>> => meter.val = meter.calls[Len(meter.calls)][1]
    /\ meter.calls = <<>> =>
         meter.val = 0 /\ meter.avg = <<0, 1>> /\ meter.sum = 0 /\ meter.count = 0

\* Two updates of different weights after which avg is not an integer.
C8_Witness ==
    /\ Len(meter.calls) = 2
    /\ meter.calls[1][2] # meter.calls[2][2]
    /\ meter.avg[2] # 1
    /\ meter.val # 0

(***************************************************************************)
(* Properties of the GED metric.                                           *)
(***************************************************************************)
\* The one-hot collections of the batch element being processed.
CurrentX == OneHot(ged.labels[ged.i + 1], ged.H, ged.W, ged.num_classes)

CurrentY == OneHot(ged.bin_preds[ged.i + 1], ged.H, ged.W, ged.num_classes)

EmptyUnion(x, y, c) == \A p \in DOMAIN x : ~x[p][c] /\ ~y[p][c]

\* C1: when the union of x[i] and y[j] is empty for a non-background class,
\* the IoU of that class is 1.0; with num_classes = 2, maps without a
\* foreground pixel are at distance 0 from each other.
C1_EmptyUnionIouIsOne ==
    ged.pc = "distance_0" =>
        /\ \A m \in 1 .. ged.M, n \in 1 .. ged.N, c \in 1 .. ged.num_classes - 1 :
               EmptyUnion(CurrentX[m], CurrentY[n], c) =>
                   Iou(CurrentX[m], CurrentY[n], c) = NumOne
        /\ ( /\ ged.num_classes = 2
             /\ \A m \in 1 .. ged.M : AllZero(ged.labels[ged.i + 1][m])
             /\ \A n \in 1 .. ged.N : AllZero(ged.bin_preds[ged.i + 1][n]) )
           => ged.cross = NumZero

\* Every prediction map, thresholded, is the label map at the same index.
SameCollections ==
    /\ ged.M = ged.N
    /\ \A b \in 1 .. ged.B, n \in 1 .. ged.N :
           ged.labels[b][n] =
               [p \in Pixels(ged.H, ged.W) |->
                   IF ged.preds[b][n][p] > ged.thresh THEN 1 ELSE 0]

\* C3: when the thresholded predictions are the label maps, every batch
\* element has cross_distance = distance_0 = distance_1 and the returned
\* GED is 0.
C3_IdenticalCollectionsGedZero ==
    SameCollections =>
        /\ (ged.pc \in {"loop", "done"} /\ ged.i >= 1) =>
               /\ ged.cross = ged.d_0
               /\ ged.d_0 = ged.d_1
               /\ \A k \in 1 .. Len(ged.batch_ged) : ged.batch_ged[k] = NumZero
        /\ ged.pc = "done" => ged.result = NumZero

\* A finished call on two different label maps, repeated as predictions,
\* whose distances are not 0.
C3_Witness ==
    /\ SameCollections
    /\ ged.pc = "done"
    /\ ged.M = 2
    /\ ged.labels[1][1] # ged.labels[1][2]
    /\ ged.cross # NumZero

\* C4: the fallback path of distance returns the matrix of the broadcast
\* path, entry for entry, for each of the three calls made on a batch element.
C4_FallbackEqualsBroadcast ==
    ged.pc \in {"distance_0", "distance_1"} =>
        /\ Distance(CurrentX, CurrentY, ged.num_classes, TRUE)
               = Distance(CurrentX, CurrentY, ged.num_classes, FALSE)
        /\ Distance(CurrentX, CurrentX, ged.num_classes, TRUE)
               = Distance(CurrentX, CurrentX, ged.num_classes, FALSE)
        /\ Distance(CurrentY, CurrentY, ged.num_classes, TRUE)
               = Distance(CurrentY, CurrentY, ged.num_classes, FALSE)
        /\ ged.cross = Normal(NumMean(Flatten(
               Distance(CurrentX, CurrentY, ged.num_classes, FALSE))))

\* The cross distance was computed on the fallback path, for two label
\* maps and two predictions whose distance matrix is not symmetric.
C4_Witness ==
    /\ ged.pc = "distance_0"
    /\ ged.memory_error
    /\ ged.M = 2
    /\ ged.N = 2
    /\ LET d == Distance(CurrentX, CurrentY, ged.num_classes, FALSE)
       IN d[1][2] # d[2][1]

=============================================================================
